---- MODULE Spec2Model ----
(***************************************************************************)
(* Model of the message grouping engine of src/lib/subagentGrouping.ts:    *)
(* the per-message classifiers, and groupMessages with its four passes     *)
(* (task index, subagent groups, intermediate groups, aggregation).        *)
(*                                                                         *)
(* A message is a record                                                   *)
(*   [ref, type, content, parent_tool_use_id, id, timestamp, usage,        *)
(*    message_usage, isSidechain, own_content]                             *)
(* where ref stands for the identity of the JavaScript object (the         *)
(* transcript holds distinct objects, ref is the position in it, from 0),  *)
(* content is [kind, items, text] with kind "array", "string" or           *)
(* "undefined", and a content item is [type, id, name, text,               *)
(* subagent_type, tool_use_id].  Texts are sequences of characters.  A     *)
(* missing string field holds Undefined, a missing usage is NoUsage.       *)
(* The field content is message.content of the source's message, the      *)
(* field own_content is the content field of the message object itself,    *)
(* which holds the text of a message of type thinking.                     *)
(*                                                                         *)
(* The second part models the comparators isMessageEqual and               *)
(* isMessageGroupEqual and the entry point of the renderer of              *)
(* src/components/message/StreamMessageV2.tsx, the third shouldHideMessage *)
(* and the growth of the transcript by appended messages.                  *)
(***************************************************************************)
EXTENDS Integers, Sequences, FiniteSets, TLC

VARIABLES messages, pc, subagentGroups, intermediateGroups, finalGroups, technical,
          extracted, equal, change, rendered, hidden

vars == <<messages, pc, subagentGroups, intermediateGroups, finalGroups, technical,
          extracted, equal, change, rendered, hidden>>

----------------------------------------------------------------------------
(* Bounds of the model *)

MaxLen == 4

MaxRunLen == 5

ChildrenPerTask == 3

MaxItems == 2

MaxMembers == 2

MaxMalformedLen == 3

MaxRenderLen == 2

MaxHideLen == 3

MaxGrowLen == 4

----------------------------------------------------------------------------
(* JavaScript values *)

Undefined == "undefined"

Null == "null"

Truthy(s) == s \notin {Undefined, Null, ""}

toLowerCase(s) ==
  CASE s = "Task" -> "task"
    [] s = "TASK" -> "task"
    [] s = "TaSk" -> "task"
    [] s = "Tasks" -> "tasks"
    [] s = "Read" -> "read"
    [] OTHER -> s

IsWhitespace(c) == c \in {" ", "\n", "\t"}

RECURSIVE trimStart(_)
trimStart(s) ==
  IF s # <<>> /\ IsWhitespace(Head(s)) THEN trimStart(Tail(s)) ELSE s

RECURSIVE trimEnd(_)
trimEnd(s) ==
  IF s # <<>> /\ IsWhitespace(s[Len(s)]) THEN trimEnd(SubSeq(s, 1, Len(s) - 1)) ELSE s

trim(s) == trimEnd(trimStart(s))

IsArray(content) == content.kind = "array"

Max(a, b) == IF a >= b THEN a ELSE b

----------------------------------------------------------------------------
(* Classifiers *)

(* Variant: the tool name is compared without lowering its case. *)
IsTaskItemCaseSensitive(item) == item.type = "tool_use" /\ item.name = "task"

IsTaskItem(item) == item.type = "tool_use" /\ toLowerCase(item.name) = "task"

hasTaskToolCall(message) ==
  IF message.type # "assistant" THEN FALSE
  ELSE IF ~IsArray(message.content) THEN FALSE
  ELSE \E k \in 1..Len(message.content.items) : IsTaskItem(message.content.items[k])

RECURSIVE TaskItemIds(_)
TaskItemIds(items) ==
  IF items = <<>> THEN <<>>
  ELSE LET item == Head(items)
       IN  IF IsTaskItem(item) /\ Truthy(item.id)
           THEN <<item.id>> \o TaskItemIds(Tail(items))
           ELSE TaskItemIds(Tail(items))

extractTaskToolUseIds(message) ==
  IF ~hasTaskToolCall(message) THEN <<>>
  ELSE TaskItemIds(message.content.items)

RECURSIVE TaskItemDetails(_, _)
TaskItemDetails(items, details) ==
  IF items = <<>> THEN details
  ELSE LET item == Head(items)
       IN  IF IsTaskItem(item) /\ Truthy(item.id)
           THEN TaskItemDetails(Tail(items),
                  [t \in DOMAIN details \cup {item.id} |->
                     IF t = item.id THEN [subagentType |-> item.subagent_type]
                     ELSE details[t]])
           ELSE TaskItemDetails(Tail(items), details)

extractTaskToolDetails(message) ==
  IF ~hasTaskToolCall(message) THEN <<>>
  ELSE TaskItemDetails(message.content.items, <<>>)

getParentToolUseId(message) ==
  IF Truthy(message.parent_tool_use_id) THEN message.parent_tool_use_id ELSE Null

(* Variant: a text item is allowed only when its untrimmed text is empty. *)
IsTechnicalItemNoTrim(item) ==
  IF item.type = "tool_use" THEN TRUE
  ELSE IF item.type = "tool_result" THEN TRUE
  ELSE IF item.type = "thinking" THEN TRUE
  ELSE IF item.type = "text" THEN Len(item.text) = 0
  ELSE FALSE

IsTechnicalItem(item) ==
  IF item.type = "tool_use" THEN TRUE
  ELSE IF item.type = "tool_result" THEN TRUE
  ELSE IF item.type = "thinking" THEN TRUE
  ELSE IF item.type = "text" THEN item.text = <<>> \/ Len(trim(item.text)) = 0
  ELSE FALSE

(* Variant: content that is no array counts as an empty array. *)
isTechnicalMessageAnyContent(message) ==
  IF message.type = "thinking" THEN TRUE
  ELSE IF message.type # "assistant" THEN FALSE
  ELSE \A k \in 1..Len(message.content.items) : IsTechnicalItem(message.content.items[k])

isTechnicalMessage(message) ==
  IF message.type = "thinking" THEN TRUE
  ELSE IF message.type # "assistant" THEN FALSE
  ELSE IF ~IsArray(message.content) THEN FALSE
  ELSE \A k \in 1..Len(message.content.items) : IsTechnicalItem(message.content.items[k])

----------------------------------------------------------------------------
(* groupMessages: first pass, the task index.  A map is a function whose  *)
(* domain is its key set; index i of the source is messages[i + 1].       *)

EmptyMap == [t \in {} |-> 0]

(* Variant: a key that is present keeps its value. *)
MapSetIfAbsent(map, key, value) ==
  [t \in DOMAIN map \cup {key} |-> IF t \in DOMAIN map THEN map[t] ELSE value]

MapSet(map, key, value) ==
  [t \in DOMAIN map \cup {key} |-> IF t = key THEN value ELSE map[t]]

RECURSIVE SetTaskIds(_, _, _, _)
SetTaskIds(taskIds, message, index, map) ==
  IF taskIds = <<>> THEN map
  ELSE SetTaskIds(Tail(taskIds), message, index,
                  MapSet(map, Head(taskIds), [message |-> message, index |-> index]))

RECURSIVE TaskToolUseMap(_, _, _)
TaskToolUseMap(msgs, index, map) ==
  IF index >= Len(msgs) THEN map
  ELSE LET message == msgs[index + 1]
           taskIds == extractTaskToolUseIds(message)
       IN  TaskToolUseMap(msgs, index + 1,
             IF Len(taskIds) > 0 THEN SetTaskIds(taskIds, message, index, map) ELSE map)

IndexToTaskIds(msgs) ==
  [index \in {i \in 0..(Len(msgs) - 1) : Len(extractTaskToolUseIds(msgs[i + 1])) > 0} |->
     extractTaskToolUseIds(msgs[index + 1])]

RECURSIVE SetSubagentTypes(_, _, _)
SetSubagentTypes(taskIds, details, map) ==
  IF taskIds = <<>> THEN map
  ELSE LET taskId == Head(taskIds)
       IN  SetSubagentTypes(Tail(taskIds), details,
             IF taskId \in DOMAIN details /\ Truthy(details[taskId].subagentType)
             THEN MapSet(map, taskId, details[taskId].subagentType)
             ELSE map)

RECURSIVE TaskSubagentTypes(_, _, _)
TaskSubagentTypes(msgs, index, map) ==
  IF index >= Len(msgs) THEN map
  ELSE LET message == msgs[index + 1]
           taskIds == extractTaskToolUseIds(message)
       IN  TaskSubagentTypes(msgs, index + 1,
             IF Len(taskIds) > 0
             THEN SetSubagentTypes(taskIds, extractTaskToolDetails(message), map)
             ELSE map)

----------------------------------------------------------------------------
(* groupMessages: second pass, one SubagentGroup per task id with          *)
(* children                                                                *)

(* Variant: any parent id makes a message a child of the scanned task. *)
IsChildOfAny(parentId, taskId) == Truthy(parentId)

IsChildOf(parentId, taskId) == parentId = taskId

(* Variant: the scan stops at the next task invocation. *)
RECURSIVE CollectSubagentMessagesUntilNextTask(_, _, _, _)
CollectSubagentMessagesUntilNextTask(msgs, taskId, i, acc) ==
  IF i >= Len(msgs) \/ hasTaskToolCall(msgs[i + 1]) THEN acc
  ELSE LET msg == msgs[i + 1]
           parentId == getParentToolUseId(msg)
       IN  CollectSubagentMessagesUntilNextTask(msgs, taskId, i + 1,
             IF IsChildOf(parentId, taskId)
             THEN [subagentMessages |-> Append(acc.subagentMessages, msg),
                   maxIndex |-> Max(acc.maxIndex, i)]
             ELSE acc)

RECURSIVE CollectSubagentMessages(_, _, _, _)
CollectSubagentMessages(msgs, taskId, i, acc) ==
  IF i >= Len(msgs) THEN acc
  ELSE LET msg == msgs[i + 1]
           parentId == getParentToolUseId(msg)
       IN  CollectSubagentMessages(msgs, taskId, i + 1,
             IF IsChildOf(parentId, taskId)
             THEN [subagentMessages |-> Append(acc.subagentMessages, msg),
                   maxIndex |-> Max(acc.maxIndex, i)]
             ELSE acc)

(* Variant: the scan starts at index 0 instead of after the task message. *)
ScanTaskFromStart(msgs, taskId, taskInfo) ==
  CollectSubagentMessages(msgs, taskId, 0,
                          [subagentMessages |-> <<>>, maxIndex |-> taskInfo.index])

ScanTask(msgs, taskId, taskInfo) ==
  CollectSubagentMessages(msgs, taskId, taskInfo.index + 1,
                          [subagentMessages |-> <<>>, maxIndex |-> taskInfo.index])

(* Variant: a group is created for a task without children too. *)
MaterializedAlways(scan) == TRUE

Materialized(scan) == Len(scan.subagentMessages) > 0

SubagentGroups(msgs) ==
  LET taskToolUseMap == TaskToolUseMap(msgs, 0, EmptyMap)
      taskSubagentTypes == TaskSubagentTypes(msgs, 0, EmptyMap)
  IN  [taskId \in {t \in DOMAIN taskToolUseMap :
                     Materialized(ScanTask(msgs, t, taskToolUseMap[t]))} |->
         LET taskInfo == taskToolUseMap[taskId]
             scan == ScanTask(msgs, taskId, taskInfo)
         IN  [id |-> taskId,
              taskMessage |-> taskInfo.message,
              taskToolUseId |-> taskId,
              subagentMessages |-> scan.subagentMessages,
              startIndex |-> taskInfo.index,
              endIndex |-> scan.maxIndex,
              subagentType |-> IF taskId \in DOMAIN taskSubagentTypes
                               THEN taskSubagentTypes[taskId] ELSE Undefined]]

IsProcessed(message, groups) ==
  LET parentId == getParentToolUseId(message)
  IN  Truthy(parentId) /\ parentId \in DOMAIN groups

ProcessedIndices(msgs, groups) ==
  {index \in 0..(Len(msgs) - 1) : IsProcessed(msgs[index + 1], groups)}

----------------------------------------------------------------------------
(* groupMessages: third pass, the intermediate groups *)

RECURSIVE PushTaskGroups(_, _, _)
PushTaskGroups(taskIds, groups, acc) ==
  IF taskIds = <<>> THEN acc
  ELSE LET taskId == Head(taskIds)
       IN  PushTaskGroups(Tail(taskIds), groups,
             IF taskId \in DOMAIN groups /\ taskId \notin acc.addedTaskGroups
             THEN [intermediateGroups |->
                     Append(acc.intermediateGroups,
                            [type |-> "subagent", group |-> groups[taskId]]),
                   addedTaskGroups |-> acc.addedTaskGroups \cup {taskId}]
             ELSE acc)

NormalGroup(message, index) == [type |-> "normal", message |-> message, index |-> index]

(* Variant: the message is represented only when every task id has a group. *)
HasEverySubagentGroup(taskIds, groups) ==
  \A k \in 1..Len(taskIds) : taskIds[k] \in DOMAIN groups

HasAnySubagentGroup(taskIds, groups) ==
  \E k \in 1..Len(taskIds) : taskIds[k] \in DOMAIN groups

RECURSIVE ThirdPass(_, _, _, _, _, _)
ThirdPass(msgs, groups, indexToTaskIds, processedIndices, index, acc) ==
  IF index >= Len(msgs) THEN acc.intermediateGroups
  ELSE LET message == msgs[index + 1]
       IN  IF index \in processedIndices
           THEN ThirdPass(msgs, groups, indexToTaskIds, processedIndices, index + 1, acc)
           ELSE IF index \in DOMAIN indexToTaskIds /\ Len(indexToTaskIds[index]) > 0
           THEN LET taskIds == indexToTaskIds[index]
                    pushed == PushTaskGroups(taskIds, groups, acc)
                    hasAnySubagentGroup == HasAnySubagentGroup(taskIds, groups)
                IN  ThirdPass(msgs, groups, indexToTaskIds, processedIndices, index + 1,
                      IF ~hasAnySubagentGroup
                      THEN [pushed EXCEPT !.intermediateGroups =
                                            Append(@, NormalGroup(message, index))]
                      ELSE pushed)
           ELSE ThirdPass(msgs, groups, indexToTaskIds, processedIndices, index + 1,
                  [acc EXCEPT !.intermediateGroups =
                                Append(@, NormalGroup(message, index))])

IntermediateGroups(msgs) ==
  LET groups == SubagentGroups(msgs)
  IN  ThirdPass(msgs, groups, IndexToTaskIds(msgs), ProcessedIndices(msgs, groups), 0,
                [intermediateGroups |-> <<>>, addedTaskGroups |-> {}])

----------------------------------------------------------------------------
(* groupMessages: fourth pass, aggregation of technical messages.  The     *)
(* open aggregation is [open, messages, startIndex]; open = FALSE is the   *)
(* source's null.                                                          *)

NoAggregation == [open |-> FALSE, messages |-> <<>>, startIndex |-> 0]

AggregatedGroup(agg) ==
  [type |-> "aggregated", messages |-> agg.messages, index |-> agg.startIndex]

(* Variant: an aggregated entry is emitted even when no run is open. *)
FlushAlways(groups, agg) == Append(groups, AggregatedGroup(agg))

Flush(groups, agg) ==
  IF agg.open THEN Append(groups, AggregatedGroup(agg)) ELSE groups

StartAggregation(group) ==
  [open |-> TRUE, messages |-> <<>>, startIndex |-> group.index]

(* Variant: the pushed message replaces the run instead of extending it. *)
PushAggregationReplace(agg, msg) == [agg EXCEPT !.messages = <<msg>>]

PushAggregation(agg, msg) == [agg EXCEPT !.messages = Append(@, msg)]

RECURSIVE FourthPass(_, _, _)
FourthPass(intermediate, groups, agg) ==
  IF intermediate = <<>> THEN Flush(groups, agg)
  ELSE LET group == Head(intermediate)
       IN  IF group.type = "subagent"
           THEN FourthPass(Tail(intermediate), Append(Flush(groups, agg), group),
                           NoAggregation)
           ELSE IF isTechnicalMessage(group.message)
           THEN FourthPass(Tail(intermediate), groups,
                  PushAggregation(IF ~agg.open THEN StartAggregation(group) ELSE agg,
                                  group.message))
           ELSE FourthPass(Tail(intermediate), Append(Flush(groups, agg), group),
                           NoAggregation)

groupMessages(msgs) == FourthPass(IntermediateGroups(msgs), <<>>, NoAggregation)

----------------------------------------------------------------------------
(* shouldHideMessage *)

isSubagentMessage(message) == Truthy(message.parent_tool_use_id) \/ message.isSidechain

shouldHideMessage(message, groups) ==
  IF isSubagentMessage(message)
  THEN LET parentId == getParentToolUseId(message)
       IN  IF Truthy(parentId)
           THEN \E k \in 1..Len(groups) :
                  groups[k].type = "subagent" /\ groups[k].group.taskToolUseId = parentId
           ELSE FALSE
  ELSE FALSE

----------------------------------------------------------------------------
(* Inputs: content items, contents, messages *)

Item(type, id, name, text) ==
  [type |-> type, id |-> id, name |-> name, text |-> text, subagent_type |-> Undefined,
   tool_use_id |-> Undefined]

TextItem(text) == Item("text", Undefined, Undefined, text)

ToolUse(id, name) == Item("tool_use", id, name, <<>>)

TaskUse(id, name, subagentType) ==
  [type |-> "tool_use", id |-> id, name |-> name, text |-> <<>>,
   subagent_type |-> subagentType, tool_use_id |-> Undefined]

ToolResult == Item("tool_result", Undefined, Undefined, <<>>)

ArrayContent(items) == [kind |-> "array", items |-> items, text |-> <<>>]

StringContent(text) == [kind |-> "string", items |-> <<>>, text |-> text]

NoContent == [kind |-> "undefined", items |-> <<>>, text |-> <<>>]

UndefinedNumber == 0 - 1

NoUsage == [input_tokens |-> UndefinedNumber, output_tokens |-> UndefinedNumber]

Shape(type, content, parent) ==
  [type |-> type, content |-> content, parent_tool_use_id |-> parent,
   id |-> Undefined, timestamp |-> Undefined, usage |-> NoUsage,
   message_usage |-> NoUsage, isSidechain |-> FALSE, own_content |-> <<>>]

Hi == <<"h", "i">>

AssistantText == Shape("assistant", ArrayContent(<<TextItem(Hi)>>), Undefined)

AssistantTool == Shape("assistant", ArrayContent(<<ToolUse("r1", "Read")>>), Undefined)

TaskA == Shape("assistant", ArrayContent(<<TaskUse("A", "Task", "explore")>>), Undefined)

TaskB == Shape("assistant", ArrayContent(<<TaskUse("B", "task", Undefined)>>), Undefined)

TaskAB ==
  Shape("assistant",
        ArrayContent(<<TaskUse("A", "Task", "explore"), TaskUse("B", "task", Undefined)>>),
        Undefined)

TextTaskB ==
  Shape("assistant", ArrayContent(<<TextItem(Hi), TaskUse("B", "Task", "plan")>>),
        Undefined)

NestedTaskB ==
  Shape("assistant", ArrayContent(<<TaskUse("B", "Task", "plan")>>), "A")

ResultOfA == Shape("user", ArrayContent(<<ToolResult>>), "A")

TextOfB == Shape("assistant", ArrayContent(<<TextItem(Hi)>>), "B")

ThinkingMessage == Shape("thinking", StringContent(<<>>), Undefined)

DanglingText == Shape("user", StringContent(Hi), "X")

MessageShapes ==
  {AssistantText, AssistantTool, TaskA, TaskB, TaskAB, TextTaskB, NestedTaskB,
   ResultOfA, TextOfB, ThinkingMessage, DanglingText}

WithRefs(shapes) ==
  [i \in 1..Len(shapes) |->
     [ref |-> i - 1, type |-> shapes[i].type, content |-> shapes[i].content,
      parent_tool_use_id |-> shapes[i].parent_tool_use_id,
      id |-> shapes[i].id, timestamp |-> shapes[i].timestamp,
      usage |-> shapes[i].usage, message_usage |-> shapes[i].message_usage,
      isSidechain |-> shapes[i].isSidechain, own_content |-> shapes[i].own_content]]

SeqsUpTo(S, n) == UNION {[1..k -> S] : k \in 0..n}

----------------------------------------------------------------------------
(* StreamMessageV2.tsx: the comparators.  Two references to the same       *)
(* object are two equal records (same ref); NoMessage is the source's      *)
(* undefined message, NullItem a null entry of a content array.            *)

NoMessage ==
  [ref |-> 0 - 1, type |-> Undefined, content |-> NoContent,
   parent_tool_use_id |-> Undefined, id |-> Undefined, timestamp |-> Undefined,
   usage |-> NoUsage, message_usage |-> NoUsage, isSidechain |-> FALSE,
   own_content |-> <<>>]

NullItem ==
  [type |-> Null, id |-> Null, name |-> Null, text |-> <<>>, subagent_type |-> Null,
   tool_use_id |-> Null]

ItemType(item) == IF item = NullItem THEN Undefined ELSE item.type

(* Variant: only the types of the two items are compared. *)
ItemsEqualByType(prevItem, nextItem) == ItemType(prevItem) = ItemType(nextItem)

ItemsEqual(prevItem, nextItem) ==
  /\ ItemType(prevItem) = ItemType(nextItem)
  /\ ItemType(prevItem) = "text" => prevItem.text = nextItem.text
  /\ ItemType(prevItem) = "tool_use" =>
       prevItem.id = nextItem.id /\ prevItem.name = nextItem.name
  /\ ItemType(prevItem) = "tool_result" => prevItem.tool_use_id = nextItem.tool_use_id

ContentEqual(prevContent, nextContent) ==
  IF IsArray(prevContent) /\ IsArray(nextContent)
  THEN /\ Len(prevContent.items) = Len(nextContent.items)
       /\ \A i \in 1..Len(prevContent.items) :
            ItemsEqual(prevContent.items[i], nextContent.items[i])
  ELSE prevContent = nextContent

Usage(message) == IF message.usage # NoUsage THEN message.usage ELSE message.message_usage

UsageEqual(prev, next) ==
  /\ Usage(prev).input_tokens = Usage(next).input_tokens
  /\ Usage(prev).output_tokens = Usage(next).output_tokens

isMessageEqual(prev, next) ==
  IF prev = next THEN TRUE
  ELSE IF prev = NoMessage \/ next = NoMessage THEN FALSE
  ELSE IF prev.type # next.type THEN FALSE
  ELSE IF Truthy(prev.id) /\ Truthy(next.id) /\ prev.id # next.id THEN FALSE
  ELSE IF prev.timestamp # next.timestamp THEN FALSE
  ELSE IF ~ContentEqual(prev.content, next.content) THEN FALSE
  ELSE UsageEqual(prev, next)

(* NoMessageGroup is the undefined messageGroup, NoGroup the absent group  *)
(* of a subagent entry (no SubagentGroup has a null id).  Entries carry no *)
(* identity of their own: two entries that are equal records hold the same *)
(* message objects, and the comparator reports such entries equal on every *)
(* path, as it does for one and the same object.                           *)

NoMessageGroup == [type |-> Undefined]

NoGroup ==
  [id |-> Null, taskMessage |-> NoMessage, taskToolUseId |-> Null,
   subagentMessages |-> <<>>, startIndex |-> 0, endIndex |-> 0,
   subagentType |-> Undefined]

(* Variant: the lengths of the two lists are not compared. *)
SubagentMessagesEqualNoLength(prevGroup, nextGroup) ==
  \A i \in 1..Len(prevGroup.subagentMessages) :
    LET nextMessage == IF i <= Len(nextGroup.subagentMessages)
                       THEN nextGroup.subagentMessages[i] ELSE NoMessage
    IN  \/ prevGroup.subagentMessages[i] = nextMessage
        \/ isMessageEqual(prevGroup.subagentMessages[i], nextMessage)

SubagentMessagesEqual(prevGroup, nextGroup) ==
  /\ Len(prevGroup.subagentMessages) = Len(nextGroup.subagentMessages)
  /\ \A i \in 1..Len(prevGroup.subagentMessages) :
       \/ prevGroup.subagentMessages[i] = nextGroup.subagentMessages[i]
       \/ isMessageEqual(prevGroup.subagentMessages[i], nextGroup.subagentMessages[i])

isMessageGroupEqual(prev, next) ==
  IF prev = next THEN TRUE
  ELSE IF prev = NoMessageGroup \/ next = NoMessageGroup THEN FALSE
  ELSE IF prev.type # next.type THEN FALSE
  ELSE IF prev.type = "normal" THEN isMessageEqual(prev.message, next.message)
  ELSE IF prev.type = "subagent"
  THEN IF prev.group = NoGroup \/ next.group = NoGroup THEN prev.group = next.group
       ELSE /\ isMessageEqual(prev.group.taskMessage, next.group.taskMessage)
            /\ SubagentMessagesEqual(prev.group, next.group)
  ELSE TRUE

(* StreamMessageV2.tsx: the component.  Its outcome is the name of the     *)
(* component it returns, or "null".  NotAnArray is a subagentMessages      *)
(* value that is no array.  The messages of the model carry no             *)
(* _toolResultOnly flag, so the filter of empty tool results is skipped.   *)

NotAnArray == <<[NoMessage EXCEPT !.ref = 0 - 2]>>

IsArrayValue(value) == value # NotAnArray

MESSAGE_RENDERERS(messageType) ==
  CASE messageType = "user" -> "UserMessage"
    [] messageType = "assistant" -> "AIMessage"
    [] messageType = "system" -> "SystemMessage"
    [] messageType = "result" -> "ResultMessage"
    [] messageType = "summary" -> "SummaryMessage"
    [] OTHER -> "null"

RenderMessage(message) ==
  IF message = NoMessage THEN "null"
  ELSE IF message.type = "thinking" THEN "AIMessage"
  ELSE IF message.type \in {"tool_use", "queue-operation"} THEN "null"
  ELSE MESSAGE_RENDERERS(message.type)

GroupMessage(messageGroup) ==
  IF messageGroup.type = "normal" THEN messageGroup.message ELSE NoMessage

(* Variant: subagentMessages is not required to be an array. *)
StreamMessageV2ComponentAnyMessages(message, messageGroup) ==
  IF messageGroup # NoMessageGroup
  THEN IF messageGroup.type = "subagent"
       THEN IF messageGroup.group = NoGroup \/ messageGroup.group.taskMessage = NoMessage
            THEN "null"
            ELSE "SubagentMessageGroup"
       ELSE RenderMessage(GroupMessage(messageGroup))
  ELSE RenderMessage(message)

StreamMessageV2Component(message, messageGroup) ==
  IF messageGroup # NoMessageGroup
  THEN IF messageGroup.type = "subagent"
       THEN IF \/ messageGroup.group = NoGroup
               \/ messageGroup.group.taskMessage = NoMessage
               \/ ~IsArrayValue(messageGroup.group.subagentMessages)
            THEN "null"
            ELSE "SubagentMessageGroup"
       ELSE RenderMessage(GroupMessage(messageGroup))
  ELSE RenderMessage(message)

----------------------------------------------------------------------------
(* subagentGrouping.ts on malformed items: where the classifiers raise a   *)
(* TypeError.  NumberValue is a name that is a number, NumberText a text   *)
(* that is a non-zero number: neither has toLowerCase or trim.  The        *)
(* callbacks of some and every stop at the first deciding item, those of   *)
(* filter visit every item.                                                *)

NumberValue == "#number"

NumberText == <<NumberValue>>

TaskTestThrows(item) ==
  item = NullItem \/ (item.type = "tool_use" /\ item.name = NumberValue)

RECURSIVE SomeThrows(_)
SomeThrows(items) ==
  IF items = <<>> THEN FALSE
  ELSE IF TaskTestThrows(Head(items)) THEN TRUE
  ELSE IF IsTaskItem(Head(items)) THEN FALSE
  ELSE SomeThrows(Tail(items))

hasTaskToolCallThrows(message) ==
  /\ message.type = "assistant"
  /\ IsArray(message.content)
  /\ SomeThrows(message.content.items)

extractTaskToolUseIdsThrows(message) ==
  \/ hasTaskToolCallThrows(message)
  \/ /\ hasTaskToolCall(message)
     /\ \E k \in 1..Len(message.content.items) : TaskTestThrows(message.content.items[k])

TechnicalTestThrows(item) ==
  item = NullItem \/ (item.type = "text" /\ item.text = NumberText)

RECURSIVE EveryThrows(_)
EveryThrows(items) ==
  IF items = <<>> THEN FALSE
  ELSE IF TechnicalTestThrows(Head(items)) THEN TRUE
  ELSE IF ~IsTechnicalItem(Head(items)) THEN FALSE
  ELSE EveryThrows(Tail(items))

isTechnicalMessageThrows(message) ==
  /\ message.type # "thinking"
  /\ message.type = "assistant"
  /\ IsArray(message.content)
  /\ EveryThrows(message.content.items)

groupMessagesThrows(msgs) ==
  \/ \E k \in 1..Len(msgs) : extractTaskToolUseIdsThrows(msgs[k])
  \/ /\ \A k \in 1..Len(msgs) : ~extractTaskToolUseIdsThrows(msgs[k])
     /\ \E g \in 1..Len(IntermediateGroups(msgs)) :
          /\ IntermediateGroups(msgs)[g].type = "normal"
          /\ isTechnicalMessageThrows(IntermediateGroups(msgs)[g].message)

ClassifyThrows(msgs) ==
  \E k \in 1..Len(msgs) :
    extractTaskToolUseIdsThrows(msgs[k]) \/ isTechnicalMessageThrows(msgs[k])

----------------------------------------------------------------------------
(* State machine.  A transcript is supplied by the transcript store, then  *)
(* groupMessages runs on it; the locals subagentGroups and                 *)
(* intermediateGroups are recorded next to the returned finalGroups.       *)
(* Classify applies isTechnicalMessage to every message of the transcript. *)

NoChange == [side |-> 0, item |-> 0, field |-> "none"]

InitOutputs ==
  /\ pc = "ready"
  /\ subagentGroups = EmptyMap
  /\ intermediateGroups = <<>>
  /\ finalGroups = <<>>
  /\ technical = {}
  /\ extracted = <<>>
  /\ equal = <<>>
  /\ change = NoChange
  /\ rendered = <<>>
  /\ hidden = {}

Init ==
  /\ messages \in {WithRefs(s) : s \in SeqsUpTo(MessageShapes, MaxLen)}
  /\ InitOutputs

GroupMessages ==
  /\ pc = "ready"
  /\ IF groupMessagesThrows(messages)
     THEN /\ pc' = "threw"
          /\ UNCHANGED <<subagentGroups, intermediateGroups, finalGroups>>
     ELSE /\ subagentGroups' = SubagentGroups(messages)
          /\ intermediateGroups' = IntermediateGroups(messages)
          /\ finalGroups' = groupMessages(messages)
          /\ pc' = "done"
  /\ UNCHANGED <<messages, technical, extracted, equal, change, rendered,
                 hidden>>

Classify ==
  /\ pc = "ready"
  /\ IF ClassifyThrows(messages)
     THEN /\ pc' = "threw"
          /\ UNCHANGED <<technical, extracted>>
     ELSE /\ technical' = {i \in 0..(Len(messages) - 1) :
                            isTechnicalMessage(messages[i + 1])}
          /\ extracted' = [k \in 1..Len(messages) |->
                             [hasTaskToolCall |-> hasTaskToolCall(messages[k]),
                              taskToolUseIds |-> extractTaskToolUseIds(messages[k]),
                              taskToolDetails |-> extractTaskToolDetails(messages[k])]]
          /\ pc' = "classified"
  /\ UNCHANGED <<messages, subagentGroups, intermediateGroups, finalGroups, equal,
                 change, rendered, hidden>>

Next == GroupMessages

Spec == Init /\ [][Next]_vars

(* Two task invocations back to back, then ChildrenPerTask children of     *)
(* each, in every interleaving and of every child kind.                    *)

ChildKinds == {"result", "text"}

Child(owner, kind) ==
  IF kind = "result" THEN Shape("user", ArrayContent(<<ToolResult>>), owner)
  ELSE Shape("assistant", ArrayContent(<<TextItem(Hi)>>), owner)

InitParallel ==
  /\ \E owner \in [1..(2 * ChildrenPerTask) -> {"A", "B"}] :
       \E kind \in [1..(2 * ChildrenPerTask) -> ChildKinds] :
         /\ Cardinality({k \in DOMAIN owner : owner[k] = "A"}) = ChildrenPerTask
         /\ messages = WithRefs(<<TaskA, TaskB>> \o
                                [k \in DOMAIN owner |-> Child(owner[k], kind[k])])
  /\ InitOutputs

SpecParallel == InitParallel /\ [][Next]_vars

(* Runs of technical messages between text messages. *)

AssistantToolResult ==
  Shape("assistant", ArrayContent(<<ToolUse("r1", "Read"), ToolResult>>), Undefined)

TextOfA == Shape("assistant", ArrayContent(<<TextItem(Hi)>>), "A")

TextTaskA ==
  Shape("assistant", ArrayContent(<<TextItem(Hi), TaskUse("A", "Task", "explore")>>),
        Undefined)

RunShapes == {AssistantText, AssistantTool, AssistantToolResult, TaskA, TextOfA, TextTaskA}

InitRun ==
  /\ messages \in {WithRefs(s) : s \in SeqsUpTo(RunShapes, MaxRunLen)}
  /\ InitOutputs

SpecRun == InitRun /\ [][Next]_vars

(* One message of every type and content, classified. *)

Texts == {<<>>, <<" ">>, <<"h">>, <<" ", "h">>, <<"\n", "\t">>}

ClassifyItems ==
  {TextItem(t) : t \in Texts}
    \cup {ToolUse("r1", "Read"), TaskUse("A", "Task", Undefined), ToolResult,
          Item("thinking", Undefined, Undefined, Hi),
          Item("image", Undefined, Undefined, <<>>),
          TaskUse("B", "task", "plan"), TaskUse("C", "TaSk", "explore"),
          TaskUse(Undefined, "TASK", Undefined), TaskUse("", "Task", Undefined),
          ToolUse("r2", "Tasks"), ToolUse("r3", Undefined),
          Item("text", "D", "task", Hi)}

ClassifyContents ==
  {NoContent} \cup {StringContent(t) : t \in Texts}
    \cup {ArrayContent(items) : items \in SeqsUpTo(ClassifyItems, MaxItems)}

MessageTypes == {"user", "assistant", "system", "thinking"}

ClassifyShapes ==
  {Shape(type, content, Undefined) : type \in MessageTypes, content \in ClassifyContents}

InitClassify ==
  /\ messages \in {WithRefs(<<m>>) : m \in ClassifyShapes}
  /\ InitOutputs

NextClassify == Classify

SpecClassify == InitClassify /\ [][NextClassify]_vars

(* Two messages handed to isMessageEqual, as the memo comparator hands it  *)
(* the message of the previous and of the next render.  The messages vary  *)
(* in every compared property around one fixed content (MetaShapes) and in *)
(* content under two fixed sets of properties (ContentShapes).             *)

ToolResultOf(toolUseId) == [ToolResult EXCEPT !.tool_use_id = toolUseId]

ThinkingItem(text) == Item("thinking", Undefined, Undefined, text)

SomeUsage == [input_tokens |-> 1, output_tokens |-> 2]

MoreUsage == [input_tokens |-> 1, output_tokens |-> 3]

EqualItems ==
  {TextItem(Hi), TextItem(<<"h">>), ToolUse("r1", "Read"), ToolUse("r2", "Read"),
   ToolUse("r1", "Bash"), ToolResultOf("r1"), ToolResultOf("r2"), ThinkingItem(Hi),
   ThinkingItem(<<"h">>), NullItem}

EqualContents ==
  {NoContent, StringContent(Hi), StringContent(<<"h">>), ArrayContent(<<>>)}
    \cup {ArrayContent(<<item>>) : item \in EqualItems}
    \cup {ArrayContent(<<TextItem(Hi), item>>) :
            item \in {ToolUse("r1", "Read"), ToolResultOf("r1")}}

MetaShapes ==
  {[AssistantText EXCEPT !.type = type, !.id = id, !.timestamp = timestamp,
                         !.usage = usage, !.message_usage = messageUsage] :
     type \in {"assistant", "user"}, id \in {Undefined, "m1", "m2"},
     timestamp \in {Undefined, "t1", "t2"}, usage \in {NoUsage, SomeUsage, MoreUsage},
     messageUsage \in {NoUsage, SomeUsage}}

ContentShapes ==
  {[AssistantText EXCEPT !.content = content] : content \in EqualContents}
    \cup {[AssistantText EXCEPT !.content = content, !.id = "m1", !.timestamp = "t1",
                                !.usage = SomeUsage] : content \in EqualContents}

(* A message of type thinking holds its text in its own content field.    *)
ThinkingShapes ==
  {[ThinkingMessage EXCEPT !.own_content = text] : text \in {<<>>, <<"h">>, Hi}}

EqualShapes == MetaShapes \cup ContentShapes \cup ThinkingShapes

WithRef(shape, ref) == [WithRefs(<<shape>>)[1] EXCEPT !.ref = ref]

InitEqual ==
  /\ \E prev \in {WithRef(s, 0) : s \in EqualShapes} \cup {NoMessage} :
       \E next \in {WithRef(s, 1) : s \in EqualShapes} \cup {NoMessage, prev} :
         messages = <<prev, next>>
  /\ InitOutputs

CompareMessages ==
  /\ pc \in {"ready", "changed"}
  /\ Len(messages) = 2
  /\ equal' = Append(equal, isMessageEqual(messages[1], messages[2]))
  /\ pc' = IF pc = "ready" THEN "compared" ELSE "recompared"
  /\ UNCHANGED <<messages, subagentGroups, intermediateGroups, finalGroups, technical,
                 extracted, change, rendered, hidden>>

(* One field of one content item of one of the two messages gets another   *)
(* value; the update is immutable, the changed message is a new object.    *)

ChangeFields == {"text", "id", "name", "tool_use_id"}

ChangeValues(field) ==
  IF field = "text" THEN {<<>>, <<"h">>, Hi} ELSE {Undefined, "r1", "r2", "Read", "Bash"}

ChangedMessage(message, item, field, value) ==
  [message EXCEPT !.ref = 2, !.content.items[item][field] = value]

ChangeItem ==
  /\ pc = "compared"
  /\ \E side \in 1..2 :
       /\ IsArray(messages[side].content)
       /\ \E item \in 1..Len(messages[side].content.items) :
            /\ messages[side].content.items[item] # NullItem
            /\ \E field \in ChangeFields :
                 \E value \in ChangeValues(field) :
                   /\ value # messages[side].content.items[item][field]
                   /\ messages' = [messages EXCEPT
                                     ![side] = ChangedMessage(@, item, field, value)]
                   /\ change' = [side |-> side, item |-> item, field |-> field]
  /\ pc' = "changed"
  /\ UNCHANGED <<subagentGroups, intermediateGroups, finalGroups, technical, extracted,
                 equal, rendered, hidden>>

(* The text of a message of type thinking gets another value, in a new     *)
(* object.                                                                 *)

ChangeOwnContent ==
  /\ pc = "compared"
  /\ \E side \in 1..2 :
       /\ messages[side] # NoMessage
       /\ messages[side].type = "thinking"
       /\ \E value \in ChangeValues("text") :
            /\ value # messages[side].own_content
            /\ messages' = [messages EXCEPT
                              ![side] = [@ EXCEPT !.ref = 2, !.own_content = value]]
            /\ change' = [side |-> side, item |-> 0, field |-> "content"]
  /\ pc' = "changed"
  /\ UNCHANGED <<subagentGroups, intermediateGroups, finalGroups, technical, extracted,
                 equal, rendered, hidden>>

NextEqual == CompareMessages \/ ChangeItem \/ ChangeOwnContent

SpecEqual == InitEqual /\ [][NextEqual]_vars

(* Two entries handed to isMessageGroupEqual: Normal, Subagent and         *)
(* Aggregated entries over a few message objects, two of which are         *)
(* distinct objects with equal fields.                                     *)

GroupMembers ==
  {WithRef(AssistantText, 0), WithRef(AssistantText, 1), WithRef(AssistantTool, 2)}

GroupTasks == {WithRef(TaskA, 3), WithRef(TaskA, 4), WithRef(TaskB, 5)}

MemberLists == SeqsUpTo(GroupMembers, MaxMembers) \ {<<>>}

SubagentEntry(taskMessage, members) ==
  [type |-> "subagent",
   group |-> [id |-> extractTaskToolUseIds(taskMessage)[1],
              taskMessage |-> taskMessage,
              taskToolUseId |-> extractTaskToolUseIds(taskMessage)[1],
              subagentMessages |-> members,
              startIndex |-> taskMessage.ref,
              endIndex |-> taskMessage.ref + Len(members),
              subagentType |-> Undefined]]

AggregatedEntry(members) ==
  AggregatedGroup([open |-> TRUE, messages |-> members, startIndex |-> members[1].ref])

GroupEntries ==
  {NormalGroup(m, m.ref) : m \in GroupMembers \cup GroupTasks}
    \cup {SubagentEntry(t, members) : t \in GroupTasks, members \in MemberLists}
    \cup {AggregatedEntry(members) : members \in MemberLists}
    \cup {[type |-> "subagent", group |-> NoGroup], NoMessageGroup}

InitGroupEqual ==
  /\ messages = <<>>
  /\ subagentGroups = EmptyMap
  /\ intermediateGroups = <<>>
  /\ finalGroups \in [1..2 -> GroupEntries]
  /\ technical = {}
  /\ extracted = <<>>
  /\ equal = <<>>
  /\ change = NoChange
  /\ rendered = <<>>
  /\ hidden = {}
  /\ pc = "entries"

CompareGroups ==
  /\ pc = "entries"
  /\ Len(finalGroups) = 2
  /\ equal' = <<isMessageGroupEqual(finalGroups[1], finalGroups[2])>>
  /\ pc' = "compared"
  /\ UNCHANGED <<messages, subagentGroups, intermediateGroups, finalGroups, technical,
                 extracted, change, rendered, hidden>>

NextGroupEqual == CompareGroups

SpecGroupEqual == InitGroupEqual /\ [][NextGroupEqual]_vars

(* Transcripts with malformed messages: missing content, content that is   *)
(* no array, null items, items lacking fields, names and texts that are    *)
(* no strings; next to them a task invocation and children.                *)

MalformedShapes ==
  {Shape("user", NoContent, Undefined),
   Shape("assistant", NoContent, Undefined),
   Shape("assistant", StringContent(Hi), Undefined),
   Shape("system", StringContent(Hi), "A"),
   ThinkingMessage,
   TaskA,
   DanglingText,
   Shape("assistant", ArrayContent(<<NullItem>>), Undefined),
   Shape("user", ArrayContent(<<NullItem>>), Undefined),
   Shape("assistant", ArrayContent(<<TaskUse("A", "Task", "explore"), NullItem>>),
         Undefined),
   Shape("assistant", ArrayContent(<<ToolUse("r1", NumberValue)>>), Undefined),
   Shape("assistant", ArrayContent(<<TextItem(NumberText)>>), Undefined),
   Shape("assistant", ArrayContent(<<TextItem(NumberText)>>), "A"),
   Shape("assistant", ArrayContent(<<Item(Undefined, Undefined, Undefined, <<>>)>>),
         Undefined)}

InitMalformed ==
  /\ messages \in {WithRefs(s) : s \in SeqsUpTo(MalformedShapes, MaxMalformedLen)}
  /\ InitOutputs

NextMalformed == GroupMessages \/ Classify

SpecMalformed == InitMalformed /\ [][NextMalformed]_vars

(* The entries of a list, each handed to StreamMessageV2 as messageGroup,  *)
(* with or without a message next to it: valid entries of the three        *)
(* variants and Subagent entries without group, without task message and   *)
(* with subagentMessages that is no array.                                 *)

ValidSubagentEntry == SubagentEntry(WithRef(TaskA, 3), <<WithRef(AssistantText, 0)>>)

RenderEntries ==
  {ValidSubagentEntry,
   SubagentEntry(WithRef(TaskB, 5), <<>>),
   [type |-> "subagent", group |-> NoGroup],
   [ValidSubagentEntry EXCEPT !.group.taskMessage = NoMessage],
   [ValidSubagentEntry EXCEPT !.group.subagentMessages = NotAnArray],
   NormalGroup(WithRef(AssistantText, 0), 0),
   NormalGroup(WithRef(DanglingText, 1), 1),
   NormalGroup(WithRef(ThinkingMessage, 2), 2),
   NormalGroup(WithRef(Shape("tool_use", NoContent, Undefined), 6), 6),
   NormalGroup(WithRef(Shape("meta", NoContent, Undefined), 7), 7),
   AggregatedEntry(<<WithRef(AssistantTool, 2)>>),
   NoMessageGroup}

InitRender ==
  /\ messages \in {<<>>, <<WithRef(AssistantText, 0)>>}
  /\ subagentGroups = EmptyMap
  /\ intermediateGroups = <<>>
  /\ finalGroups \in SeqsUpTo(RenderEntries, MaxRenderLen) \ {<<>>}
  /\ technical = {}
  /\ extracted = <<>>
  /\ equal = <<>>
  /\ change = NoChange
  /\ rendered = <<>>
  /\ hidden = {}
  /\ pc = "entries"

MessageProp == IF messages = <<>> THEN NoMessage ELSE messages[1]

Render ==
  /\ pc = "entries"
  /\ rendered' = [k \in 1..Len(finalGroups) |->
                    StreamMessageV2Component(MessageProp, finalGroups[k])]
  /\ pc' = "rendered"
  /\ UNCHANGED <<messages, subagentGroups, intermediateGroups, finalGroups, technical,
                 extracted, equal, change, hidden>>

NextRender == Render

SpecRender == InitRender /\ [][NextRender]_vars

(* shouldHideMessage applied to every message of a transcript and the      *)
(* groups that groupMessages returned for it.                              *)

SidechainText == [AssistantText EXCEPT !.isSidechain = TRUE]

HideShapes == MessageShapes \cup {SidechainText}

InitHide ==
  /\ messages \in {WithRefs(s) : s \in SeqsUpTo(HideShapes, MaxHideLen)}
  /\ InitOutputs

(* Variant: the transcript is consumed while it is tested. *)
ShouldHideMessageConsuming ==
  /\ pc = "done"
  /\ hidden' = {i \in 0..(Len(messages) - 1) :
                  shouldHideMessage(messages[i + 1], finalGroups)}
  /\ messages' = IF messages = <<>> THEN <<>> ELSE Tail(messages)
  /\ pc' = "hidden"
  /\ UNCHANGED <<subagentGroups, intermediateGroups, finalGroups, technical, extracted,
                 equal, change, rendered>>

ShouldHideMessage ==
  /\ pc = "done"
  /\ hidden' = {i \in 0..(Len(messages) - 1) :
                  shouldHideMessage(messages[i + 1], finalGroups)}
  /\ pc' = "hidden"
  /\ UNCHANGED <<messages, subagentGroups, intermediateGroups, finalGroups, technical,
                 extracted, equal, change, rendered>>

NextHide == GroupMessages \/ ShouldHideMessage

SpecHide == InitHide /\ [][NextHide]_vars

(* The four functions that are handed messages or entries, each on its own *)
(* inputs: a transcript is grouped and tested for hiding, a transcript of  *)
(* two messages is compared, two entries are compared.                     *)

InitFrame == InitHide \/ InitGroupEqual

NextFrame == GroupMessages \/ ShouldHideMessage \/ CompareMessages \/ CompareGroups

SpecFrame == InitFrame /\ [][NextFrame]_vars

(* Append-only growth: the transcript store appends one message and        *)
(* groupMessages is run again on the whole transcript.  The messages are   *)
(* well formed, no call raises an exception.                               *)

GrowShapes == {AssistantText, AssistantTool, TaskA, TaskB, NestedTaskB, ResultOfA, TextOfB}

InitGrow ==
  /\ messages = <<>>
  /\ subagentGroups = EmptyMap
  /\ intermediateGroups = <<>>
  /\ finalGroups = <<>>
  /\ technical = {}
  /\ extracted = <<>>
  /\ equal = <<>>
  /\ change = NoChange
  /\ rendered = <<>>
  /\ hidden = {}
  /\ pc = "done"

AppendMessage ==
  /\ pc = "done"
  /\ Len(messages) < MaxGrowLen
  /\ \E shape \in GrowShapes :
       messages' = Append(messages, WithRef(shape, Len(messages)))
  /\ subagentGroups' = SubagentGroups(messages')
  /\ intermediateGroups' = IntermediateGroups(messages')
  /\ finalGroups' = groupMessages(messages')
  /\ UNCHANGED <<pc, technical, extracted, equal, change, rendered, hidden>>

NextGrow == AppendMessage

SpecGrow == InitGrow /\ [][NextGrow]_vars

----------------------------------------------------------------------------
(* Views of the output used by the properties *)

Refs(msgs) == [k \in 1..Len(msgs) |-> msgs[k].ref]

Indices == 0..(Len(messages) - 1)

IsNormal(g) == g.type = "normal"

IsAggregated(g) == g.type = "aggregated"

IsSubagent(g) == g.type = "subagent"

Ascending(s) == \A k \in 1..(Len(s) - 1) : s[k] < s[k + 1]

Done == pc = "done"

----------------------------------------------------------------------------
(* Occurrences of an original index in the output *)

NormalAt(i) ==
  {k \in DOMAIN finalGroups : IsNormal(finalGroups[k]) /\ finalGroups[k].message.ref = i}

AggregatedAt(i) ==
  {<<k, j>> \in (DOMAIN finalGroups) \X (1..Len(messages)) :
     /\ IsAggregated(finalGroups[k])
     /\ j <= Len(finalGroups[k].messages)
     /\ finalGroups[k].messages[j].ref = i}

MemberAt(i) ==
  {<<k, j>> \in (DOMAIN finalGroups) \X (1..Len(messages)) :
     /\ IsSubagent(finalGroups[k])
     /\ j <= Len(finalGroups[k].group.subagentMessages)
     /\ finalGroups[k].group.subagentMessages[j].ref = i}

TaskOf(i) ==
  {k \in DOMAIN finalGroups :
     IsSubagent(finalGroups[k]) /\ finalGroups[k].group.taskMessage.ref = i}

TopLevelCount(i) == Cardinality(NormalAt(i)) + Cardinality(AggregatedAt(i))

SubagentEntries == {k \in DOMAIN finalGroups : IsSubagent(finalGroups[k])}

(* C1: every message index is accounted for exactly once in the output of  *)
(* groupMessages: as one Normal payload or Aggregated member, or as a      *)
(* member of exactly one emitted Subagent entry, or as the task message of *)
(* an emitted Subagent entry.                                              *)
C1_EveryIndexExactlyOnce ==
  Done =>
    \A i \in Indices :
      \/ TopLevelCount(i) = 1 /\ MemberAt(i) = {} /\ TaskOf(i) = {}
      \/ TopLevelCount(i) = 0 /\ Cardinality(MemberAt(i)) = 1 /\ TaskOf(i) = {}
      \/ TopLevelCount(i) = 0 /\ MemberAt(i) = {} /\ TaskOf(i) # {}

(* C2: with two back-to-back task invocations and ChildrenPerTask children *)
(* of each, interleaved in any way, the output has exactly two Subagent    *)
(* entries with distinct ids, each holding exactly its own children in     *)
(* their original order.                                                   *)
ChildrenOf(taskId) ==
  SelectSeq(Refs(messages), LAMBDA i : messages[i + 1].parent_tool_use_id = taskId)

C2_ParallelTasksGrouped ==
  Done =>
    /\ Cardinality(SubagentEntries) = 2
    /\ \A k1, k2 \in SubagentEntries :
         finalGroups[k1].group.id = finalGroups[k2].group.id => k1 = k2
    /\ \A k \in SubagentEntries :
         /\ finalGroups[k].group.id \in {"A", "B"}
         /\ Len(finalGroups[k].group.subagentMessages) = ChildrenPerTask
         /\ Refs(finalGroups[k].group.subagentMessages) = ChildrenOf(finalGroups[k].group.id)

C2_Witness ==
  /\ Done
  /\ messages[3].parent_tool_use_id = "B"
  /\ messages[4].parent_tool_use_id = "A"
  /\ messages[5].parent_tool_use_id = "B"
  /\ Cardinality(SubagentEntries) = 2

(* C3 as stated: a task invocation none of whose task ids is the parent id *)
(* of any message gets no SubagentGroup and appears in the final output as *)
(* a Normal entry.                                                         *)
TaskIdSet(message) ==
  {extractTaskToolUseIds(message)[k] : k \in 1..Len(extractTaskToolUseIds(message))}

ChildlessTask(i) ==
  /\ TaskIdSet(messages[i + 1]) # {}
  /\ \A j \in Indices : messages[j + 1].parent_tool_use_id \notin TaskIdSet(messages[i + 1])

C3_ChildlessTaskIsNormal ==
  Done =>
    \A i \in Indices :
      ChildlessTask(i) =>
        /\ TaskIdSet(messages[i + 1]) \cap DOMAIN subagentGroups = {}
        /\ NormalAt(i) # {}

(* C3 amended: such a task invocation gets no SubagentGroup and no         *)
(* Subagent entry; unless its own parent id names a materialized group, it *)
(* appears exactly once at top level, as a Normal entry when it is not     *)
(* technical and as a member of an Aggregated entry when it is.            *)
C3_ChildlessTaskAtTopLevel ==
  Done =>
    \A i \in Indices :
      ChildlessTask(i) =>
        /\ TaskIdSet(messages[i + 1]) \cap DOMAIN subagentGroups = {}
        /\ \A k \in SubagentEntries : finalGroups[k].group.id \notin TaskIdSet(messages[i + 1])
        /\ TaskOf(i) = {}
        /\ messages[i + 1].parent_tool_use_id \notin DOMAIN subagentGroups =>
             IF isTechnicalMessage(messages[i + 1])
             THEN Cardinality(AggregatedAt(i)) = 1 /\ NormalAt(i) = {}
             ELSE Cardinality(NormalAt(i)) = 1 /\ AggregatedAt(i) = {}

C3_Witness ==
  /\ Done
  /\ \E i, j \in Indices :
       /\ ChildlessTask(i) /\ isTechnicalMessage(messages[i + 1]) /\ AggregatedAt(i) # {}
       /\ ChildlessTask(j) /\ ~isTechnicalMessage(messages[j + 1]) /\ NormalAt(j) # {}

(* C4 as stated: a run of N >= 1 consecutive assistant messages holding    *)
(* only tool_use/tool_result items (no parent id, no task id with          *)
(* children), between two user-visible text messages, is emitted as        *)
(* exactly one Aggregated entry holding exactly those N messages in order. *)
HasVisibleText(text) == Len(trim(text)) > 0

IsVisibleText(message) ==
  \/ message.content.kind = "string" /\ HasVisibleText(message.content.text)
  \/ /\ message.content.kind = "array"
     /\ \E k \in 1..Len(message.content.items) :
          /\ message.content.items[k].type = "text"
          /\ HasVisibleText(message.content.items[k].text)

IsToolOnly(message) ==
  /\ message.type = "assistant"
  /\ message.content.kind = "array"
  /\ \A k \in 1..Len(message.content.items) :
       message.content.items[k].type \in {"tool_use", "tool_result"}
  /\ ~Truthy(message.parent_tool_use_id)
  /\ TaskIdSet(message) \cap DOMAIN subagentGroups = {}

ToolRun(i, j) ==
  /\ i + 1 < j
  /\ IsVisibleText(messages[i + 1])
  /\ IsVisibleText(messages[j + 1])
  /\ \A r \in (i + 1)..(j - 1) : IsToolOnly(messages[r + 1])

RunEntries(i, j) ==
  {k \in DOMAIN finalGroups :
     /\ IsAggregated(finalGroups[k])
     /\ Refs(finalGroups[k].messages) = [n \in 1..(j - i - 1) |-> i + n]}

RunSplit(i, j) ==
  {k \in DOMAIN finalGroups :
     /\ IsAggregated(finalGroups[k])
     /\ \E n \in 1..Len(finalGroups[k].messages) :
          finalGroups[k].messages[n].ref \in (i + 1)..(j - 1)}

C4_RunBetweenTexts ==
  Done =>
    \A i, j \in Indices :
      ToolRun(i, j) => Cardinality(RunEntries(i, j)) = 1 /\ RunSplit(i, j) = RunEntries(i, j)

(* C4 amended: the same, when the two bounding text messages are           *)
(* themselves emitted as Normal entries of the output.                     *)
C4_RunBetweenNormalTexts ==
  Done =>
    \A i, j \in Indices :
      ToolRun(i, j) /\ NormalAt(i) # {} /\ NormalAt(j) # {} =>
        Cardinality(RunEntries(i, j)) = 1 /\ RunSplit(i, j) = RunEntries(i, j)

C4_Witness ==
  /\ Done
  /\ \E i, j \in Indices :
       /\ ToolRun(i, j) /\ NormalAt(i) # {} /\ NormalAt(j) # {} /\ j > i + 2
       /\ RunEntries(i, j) # {}

(* C5: every Aggregated entry is non-empty and holds only technical        *)
(* messages, and no Normal entry carries a technical message.              *)
C5_AggregatedIffTechnical ==
  Done =>
    \A k \in DOMAIN finalGroups :
      /\ IsAggregated(finalGroups[k]) =>
           /\ Len(finalGroups[k].messages) > 0
           /\ \A n \in 1..Len(finalGroups[k].messages) :
                isTechnicalMessage(finalGroups[k].messages[n])
      /\ IsNormal(finalGroups[k]) => ~isTechnicalMessage(finalGroups[k].message)

C5_Witness ==
  /\ Done
  /\ \E k1, k2 \in DOMAIN finalGroups :
       /\ IsAggregated(finalGroups[k1]) /\ Len(finalGroups[k1].messages) = 1
       /\ IsNormal(finalGroups[k2])

(* C6: in every SubagentGroup, startIndex is the index of taskMessage,     *)
(* subagentMessages is non-empty and strictly ascending by original index, *)
(* every member lies after startIndex, and endIndex is the largest member  *)
(* index.                                                                  *)
MemberRefs(group) == {group.subagentMessages[n].ref : n \in 1..Len(group.subagentMessages)}

C6_GroupShape ==
  Done =>
    \A t \in DOMAIN subagentGroups :
      LET group == subagentGroups[t]
      IN  /\ group.startIndex \in Indices
          /\ messages[group.startIndex + 1] = group.taskMessage
          /\ Len(group.subagentMessages) > 0
          /\ Ascending(Refs(group.subagentMessages))
          /\ \A i \in MemberRefs(group) : i > group.startIndex
          /\ group.endIndex \in MemberRefs(group)
          /\ \A i \in MemberRefs(group) : i <= group.endIndex

C6_Witness ==
  /\ Done
  /\ \E t \in DOMAIN subagentGroups :
       /\ Len(subagentGroups[t].subagentMessages) >= 2
       /\ \E i \in Indices :
            /\ i < subagentGroups[t].startIndex
            /\ messages[i + 1].parent_tool_use_id = t

(* C7: no message index belongs to the subagentMessages of two             *)
(* SubagentGroups.                                                         *)
C7_GroupsDisjoint ==
  Done =>
    \A t1, t2 \in DOMAIN subagentGroups :
      t1 # t2 => MemberRefs(subagentGroups[t1]) \cap MemberRefs(subagentGroups[t2]) = {}

C7_Witness ==
  /\ Done
  /\ Cardinality(DOMAIN subagentGroups) >= 2

(* C8: every materialized SubagentGroup appears in the output as exactly   *)
(* one Subagent entry, and no two Subagent entries share an id.            *)
EntriesOf(t) == {k \in SubagentEntries : finalGroups[k].group.id = t}

C8_EveryGroupEmittedOnce ==
  Done =>
    /\ \A t \in DOMAIN subagentGroups : Cardinality(EntriesOf(t)) = 1
    /\ \A k1, k2 \in SubagentEntries :
         finalGroups[k1].group.id = finalGroups[k2].group.id => k1 = k2

(* C9: the positions of the output entries (index of a Normal entry, first *)
(* member of an Aggregated entry, startIndex of a Subagent entry) are      *)
(* non-decreasing, and the members of every Aggregated entry and           *)
(* SubagentGroup are in ascending original index.                          *)
Position(g) ==
  IF IsSubagent(g) THEN g.group.startIndex
  ELSE IF IsAggregated(g) THEN g.messages[1].ref
  ELSE g.index

C9_OrderPreserved ==
  Done =>
    /\ \A k \in 1..(Len(finalGroups) - 1) :
         Position(finalGroups[k]) <= Position(finalGroups[k + 1])
    /\ \A k \in DOMAIN finalGroups :
         /\ IsAggregated(finalGroups[k]) =>
              /\ finalGroups[k].index = finalGroups[k].messages[1].ref
              /\ Ascending(Refs(finalGroups[k].messages))
         /\ IsSubagent(finalGroups[k]) =>
              Ascending(Refs(finalGroups[k].group.subagentMessages))

(* C10: isTechnicalMessage holds exactly for a thinking message and for an *)
(* assistant message whose content is an item sequence of tool_use,        *)
(* tool_result, thinking and blank text items only.                        *)
AllowedItem(item) ==
  \/ item.type \in {"tool_use", "tool_result", "thinking"}
  \/ item.type = "text" /\ \A n \in 1..Len(item.text) : IsWhitespace(item.text[n])

TechnicalByDefinition(message) ==
  \/ message.type = "thinking"
  \/ /\ message.type = "assistant"
     /\ message.content.kind = "array"
     /\ \A k \in 1..Len(message.content.items) : AllowedItem(message.content.items[k])

C10_TechnicalExactly ==
  pc = "classified" =>
    \A i \in Indices : i \in technical <=> TechnicalByDefinition(messages[i + 1])

C10_Witness ==
  /\ pc = "classified"
  /\ 0 \in technical
  /\ messages[1].type = "assistant"
  /\ \E k \in 1..Len(messages[1].content.items) :
       /\ messages[1].content.items[k].type = "text"
       /\ Len(messages[1].content.items[k].text) > 0

(* C11: hasTaskToolCall holds exactly for an assistant message whose       *)
(* content is an item sequence with a tool_use item named "task" in any    *)
(* letter case; extractTaskToolUseIds returns the ids of exactly those     *)
(* items in content order, nothing when hasTaskToolCall is false; the keys *)
(* of extractTaskToolDetails are the ids returned.                         *)
TaskNames == {"task", "Task", "TASK", "TaSk"}

NamedTask(item) == item.type = "tool_use" /\ item.name \in TaskNames

TaskPositions(message) ==
  {k \in 1..Len(message.content.items) :
     NamedTask(message.content.items[k]) /\ Truthy(message.content.items[k].id)}

IdsInContentOrder(message, ids) ==
  \E pos \in [1..Len(ids) -> TaskPositions(message)] :
    /\ \A n \in 1..(Len(ids) - 1) : pos[n] < pos[n + 1]
    /\ {pos[n] : n \in 1..Len(ids)} = TaskPositions(message)
    /\ \A n \in 1..Len(ids) : ids[n] = message.content.items[pos[n]].id

SeqRange(s) == {s[n] : n \in 1..Len(s)}

C11_TaskDetection ==
  pc = "classified" =>
    \A k \in 1..Len(messages) :
      LET message == messages[k]
          isTask == /\ message.type = "assistant"
                    /\ message.content.kind = "array"
                    /\ \E n \in 1..Len(message.content.items) :
                         NamedTask(message.content.items[n])
      IN  /\ extracted[k].hasTaskToolCall <=> isTask
          /\ ~isTask => extracted[k].taskToolUseIds = <<>>
          /\ isTask => IdsInContentOrder(message, extracted[k].taskToolUseIds)
          /\ DOMAIN extracted[k].taskToolDetails = SeqRange(extracted[k].taskToolUseIds)

C11_Witness ==
  /\ pc = "classified"
  /\ extracted[1].hasTaskToolCall
  /\ extracted[1].taskToolUseIds = <<"C", "B">>
  /\ DOMAIN extracted[1].taskToolDetails = {"B", "C"}

(* C12: when isMessageEqual reported two messages equal and one of them    *)
(* then gets another text in a text item, another id or name in a tool_use *)
(* item, or another tool_use_id in a tool_result item, isMessageEqual      *)
(* reports the two messages as not equal.                                  *)

ChangedItem == messages[change.side].content.items[change.item]

ComparedChange ==
  /\ change.item > 0
  /\ \/ ChangedItem.type = "text" /\ change.field = "text"
     \/ ChangedItem.type = "tool_use" /\ change.field \in {"id", "name"}
     \/ ChangedItem.type = "tool_result" /\ change.field = "tool_use_id"

C12_ChangeFlipsEquality ==
  (pc = "recompared" /\ equal[1] /\ ComparedChange) => ~equal[2]

C12_Witness ==
  /\ pc = "recompared"
  /\ equal = <<TRUE, FALSE>>
  /\ messages[1].ref # messages[2].ref
  /\ messages[1].ref = 0
  /\ ChangedItem.type = "tool_result"
  /\ change = [side |-> 2, item |-> 2, field |-> "tool_use_id"]

(* C13: two messages that differ only in that exactly one of them defines  *)
(* a timestamp, or only in that exactly one of them defines an id, are     *)
(* reported equal by isMessageEqual.                                       *)

SameExcept(prev, next, field) ==
  /\ prev # NoMessage
  /\ next # NoMessage
  /\ [prev EXCEPT !.ref = 0, ![field] = Undefined]
       = [next EXCEPT !.ref = 0, ![field] = Undefined]

OneSided(prev, next, field) ==
  /\ SameExcept(prev, next, field)
  /\ (prev[field] = Undefined) # (next[field] = Undefined)

C13_OneSidedIdOrTimestamp ==
  (/\ pc = "compared"
   /\ \/ OneSided(messages[1], messages[2], "timestamp")
      \/ OneSided(messages[1], messages[2], "id")) => equal[1]

(* C14: when isMessageGroupEqual reports two Aggregated entries equal,     *)
(* their message lists have the same length and are equal under            *)
(* isMessageEqual at every position.                                       *)

MessageListsEqual(prevMessages, nextMessages) ==
  /\ Len(prevMessages) = Len(nextMessages)
  /\ \A i \in 1..Len(prevMessages) : isMessageEqual(prevMessages[i], nextMessages[i])

C14_AggregatedEquality ==
  (/\ pc = "compared"
   /\ Len(finalGroups) = 2
   /\ finalGroups[1].type = "aggregated"
   /\ finalGroups[2].type = "aggregated"
   /\ equal[1]) => MessageListsEqual(finalGroups[1].messages, finalGroups[2].messages)

(* C15: on two Subagent entries that both hold a group, isMessageGroupEqual *)
(* is true exactly when the task messages are equal under isMessageEqual,  *)
(* the child lists have the same length and at every position the two      *)
(* children are the same object or equal under isMessageEqual; on two      *)
(* Normal entries it is isMessageEqual of their messages; on entries of    *)
(* different variants it is false.                                         *)

SubagentEntriesEqual(prevGroup, nextGroup) ==
  /\ isMessageEqual(prevGroup.taskMessage, nextGroup.taskMessage)
  /\ Len(prevGroup.subagentMessages) = Len(nextGroup.subagentMessages)
  /\ \A i \in 1..Len(prevGroup.subagentMessages) :
       \/ prevGroup.subagentMessages[i].ref = nextGroup.subagentMessages[i].ref
       \/ isMessageEqual(prevGroup.subagentMessages[i], nextGroup.subagentMessages[i])

C15_GroupEquality ==
  (/\ pc = "compared"
   /\ Len(finalGroups) = 2
   /\ finalGroups[1] # NoMessageGroup
   /\ finalGroups[2] # NoMessageGroup) =>
    LET prev == finalGroups[1]
        next == finalGroups[2]
    IN  /\ prev.type # next.type => ~equal[1]
        /\ (prev.type = "normal" /\ next.type = "normal") =>
             (equal[1] <=> isMessageEqual(prev.message, next.message))
        /\ (/\ prev.type = "subagent" /\ next.type = "subagent"
            /\ prev.group # NoGroup /\ next.group # NoGroup) =>
             (equal[1] <=> SubagentEntriesEqual(prev.group, next.group))

C15_Witness ==
  /\ pc = "compared"
  /\ Len(finalGroups) = 2
  /\ finalGroups[1].type = "subagent"
  /\ finalGroups[2].type = "subagent"
  /\ finalGroups[1].group # NoGroup
  /\ finalGroups[2].group # NoGroup
  /\ finalGroups[1].group.taskMessage.ref # finalGroups[2].group.taskMessage.ref
  /\ Len(finalGroups[1].group.subagentMessages) = 2
  /\ Len(finalGroups[2].group.subagentMessages) = 2
  /\ finalGroups[1].group.subagentMessages[1].ref
       # finalGroups[2].group.subagentMessages[1].ref
  /\ finalGroups[1].group.subagentMessages[2].ref
       = finalGroups[2].group.subagentMessages[2].ref
  /\ equal[1]

(* C17: on every transcript, malformed messages included, groupMessages    *)
(* and the classifiers return a value and raise no exception.              *)

C17_NeverThrows == pc # "threw"

(* C18: a message of any type whose content is missing or is no item       *)
(* sequence is no task invocation and is not technical, and groupMessages  *)
(* emits it as a Normal entry.                                             *)

NoItemSequence(message) == ~IsArray(message.content)

DanglingParent(message) ==
  Truthy(message.parent_tool_use_id) /\ ~IsProcessed(message, subagentGroups)

InSomeGroup(i) ==
  \E taskId \in DOMAIN subagentGroups :
    \E j \in 1..Len(subagentGroups[taskId].subagentMessages) :
      subagentGroups[taskId].subagentMessages[j].ref = i

C19_DanglingParentVisible ==
  Done =>
    \A i \in Indices :
      DanglingParent(messages[i + 1]) =>
        /\ ~InSomeGroup(i)
        /\ MemberAt(i) = {}
        /\ NormalAt(i) # {} \/ AggregatedAt(i) # {} \/ TaskOf(i) # {}

(* C20: StreamMessageV2 renders nothing for a Subagent entry whose group   *)
(* is absent, whose task message is absent or whose subagentMessages is no *)
(* array, and only for such a Subagent entry: a valid Subagent entry in    *)
(* the same list goes to the subagent group view, and the outcome of every *)
(* other entry is that of its own message.                                 *)

InvalidSubagent(entry) ==
  \/ entry.group = NoGroup
  \/ entry.group.taskMessage = NoMessage
  \/ entry.group.subagentMessages = NotAnArray

C20_InvalidSubagentRendersNothing ==
  pc = "rendered" =>
    \A k \in 1..Len(finalGroups) :
      /\ (finalGroups[k] # NoMessageGroup /\ finalGroups[k].type = "subagent") =>
           rendered[k] = IF InvalidSubagent(finalGroups[k]) THEN "null"
                         ELSE "SubagentMessageGroup"
      /\ (finalGroups[k] # NoMessageGroup /\ finalGroups[k].type = "normal") =>
           rendered[k] = RenderMessage(finalGroups[k].message)

C20_Witness ==
  /\ pc = "rendered"
  /\ Len(finalGroups) = 2
  /\ finalGroups[1] # NoMessageGroup
  /\ finalGroups[1].type = "subagent"
  /\ finalGroups[1].group # NoGroup
  /\ finalGroups[1].group.taskMessage # NoMessage
  /\ finalGroups[1].group.subagentMessages = NotAnArray
  /\ finalGroups[2] = ValidSubagentEntry
  /\ rendered = <<"null", "SubagentMessageGroup">>

(* C21: groupMessages, shouldHideMessage, isMessageEqual and               *)
(* isMessageGroupEqual leave their inputs as they were: a step of any of   *)
(* them leaves the transcript unchanged, with every message and every      *)
(* content item, and shouldHideMessage and isMessageGroupEqual leave the   *)
(* entries they are handed unchanged.                                      *)

C22_MembershipByParent ==
  Done =>
    \A t \in DOMAIN subagentGroups :
      \A i \in Indices :
        i \in MemberRefs(subagentGroups[t]) <=>
          (i > subagentGroups[t].startIndex /\ messages[i + 1].parent_tool_use_id = t)

C22_Witness ==
  /\ Done
  /\ \E t \in DOMAIN subagentGroups :
       \E i \in MemberRefs(subagentGroups[t]) :
         \E j1, j2 \in (subagentGroups[t].startIndex + 1)..(i - 1) :
           /\ hasTaskToolCall(messages[j1 + 1])
           /\ Truthy(messages[j2 + 1].parent_tool_use_id)
           /\ messages[j2 + 1].parent_tool_use_id # t
           /\ messages[j2 + 1].parent_tool_use_id \in DOMAIN subagentGroups

(* C23 as stated: for a message that is not hidden and carries task ids,   *)
(* the output has a Normal entry for the message exactly when none of its  *)
(* ids has a materialized group; otherwise it has one Subagent entry per   *)
(* grouped id, in content order, and no Normal entry; an id without        *)
(* children has no entry.                                                  *)

TaskIdsAt(i) == extractTaskToolUseIds(messages[i + 1])

GroupedAt(i) == {n \in 1..Len(TaskIdsAt(i)) : TaskIdsAt(i)[n] \in DOMAIN subagentGroups}

VisibleTaskMessage(i) ==
  TaskIdsAt(i) # <<>> /\ ~IsProcessed(messages[i + 1], subagentGroups)

InContentOrder(i, positions) ==
  \A n, m \in positions :
    (n < m /\ TaskIdsAt(i)[n] # TaskIdsAt(i)[m]) =>
      \A k1 \in EntriesOf(TaskIdsAt(i)[n]), k2 \in EntriesOf(TaskIdsAt(i)[m]) : k1 < k2

FirstCarried(i) ==
  {n \in GroupedAt(i) :
     \A j \in Indices :
       (j < i /\ VisibleTaskMessage(j)) =>
         \A m \in 1..Len(TaskIdsAt(j)) : TaskIdsAt(j)[m] # TaskIdsAt(i)[n]}

CarriersOf(t) ==
  {i \in Indices : \E n \in 1..Len(TaskIdsAt(i)) : TaskIdsAt(i)[n] = t}

LastCarrier(t) == CHOOSE i \in CarriersOf(t) : \A j \in CarriersOf(t) : j <= i

CarriedIds == UNION {TaskIdSet(messages[i + 1]) : i \in Indices}

C24_LaterCarrierWins ==
  Done =>
    \A t \in CarriedIds :
      /\ t \in DOMAIN subagentGroups <=>
           \E i \in Indices : i > LastCarrier(t) /\ messages[i + 1].parent_tool_use_id = t
      /\ t \in DOMAIN subagentGroups =>
           /\ subagentGroups[t].startIndex = LastCarrier(t)
           /\ subagentGroups[t].taskMessage = messages[LastCarrier(t) + 1]
           /\ \A i \in MemberRefs(subagentGroups[t]) : i > LastCarrier(t)

C24_Witness ==
  /\ Done
  /\ \E t \in DOMAIN subagentGroups :
       /\ Cardinality(CarriersOf(t)) = 2
       /\ \E i \in Indices :
            /\ messages[i + 1].parent_tool_use_id = t
            /\ i < LastCarrier(t)
            /\ \E j \in CarriersOf(t) : j < i
            /\ i \notin MemberRefs(subagentGroups[t])

(* C25: no Aggregated entry spans a Subagent entry: the startIndex of a    *)
(* Subagent entry of the output never lies strictly between the original   *)
(* indices of two members of one Aggregated entry of the output.           *)

AggregatedRefs(k) == {finalGroups[k].messages[n].ref : n \in 1..Len(finalGroups[k].messages)}

C25_RunNeverSpansSubagent ==
  Done =>
    \A k \in DOMAIN finalGroups :
      IsAggregated(finalGroups[k]) =>
        \A g \in SubagentEntries :
          ~\E i, j \in AggregatedRefs(k) :
             i < finalGroups[g].group.startIndex /\ finalGroups[g].group.startIndex < j

(* C26: when isMessageEqual reported two messages equal and one of them    *)
(* then gets another reasoning text in a thinking item, or, being of type  *)
(* thinking, another text, isMessageEqual reports the two as not equal.    *)

ThinkingChange ==
  \/ change.item > 0 /\ ChangedItem.type = "thinking" /\ change.field = "text"
  \/ change.item = 0 /\ change.field = "content"

C26_ThinkingChangeFlipsEquality ==
  (pc = "recompared" /\ equal[1] /\ ThinkingChange) => ~equal[2]

(* C27: when a task invocation is itself a child of a materialized group,  *)
(* every message whose parent_tool_use_id is one of its task ids appears   *)
(* in the output: at the top level, among the subagentMessages of an       *)
(* emitted Subagent entry, or as the task message of one.                  *)

NestedTask(i) == TaskIdsAt(i) # <<>> /\ IsProcessed(messages[i + 1], subagentGroups)

AppearsInOutput(j) == TopLevelCount(j) > 0 \/ MemberAt(j) # {} \/ TaskOf(j) # {}

C27_NestedChildrenAppear ==
  Done =>
    \A i \in Indices :
      NestedTask(i) =>
        \A j \in Indices :
          messages[j + 1].parent_tool_use_id \in TaskIdSet(messages[i + 1]) =>
            AppearsInOutput(j)

(* C28: while the transcript grows by appended messages and groupMessages  *)
(* is run again after each, a Subagent entry for a task id that is in the  *)
(* output stays in the output, and its subagentMessages before the step is *)
(* a prefix of its subagentMessages after the step.                        *)

IsPrefix(s, t) == Len(s) <= Len(t) /\ \A n \in 1..Len(s) : s[n] = t[n]

C28_SubagentEntriesPersist ==
  [][\A k \in DOMAIN finalGroups :
       IsSubagent(finalGroups[k]) =>
         \E m \in DOMAIN finalGroups' :
           /\ IsSubagent(finalGroups'[m])
           /\ finalGroups'[m].group.id = finalGroups[k].group.id
           /\ IsPrefix(finalGroups[k].group.subagentMessages,
                       finalGroups'[m].group.subagentMessages)]_vars

(* C29: the subagentType of every emitted Subagent entry is the            *)
(* subagent_type of the task tool_use item with the id of the group inside *)
(* the task message of the group, and is absent when the item has none.    *)

TaskItemsOf(group) ==
  {group.taskMessage.content.items[n] : n \in 1..Len(group.taskMessage.content.items)}

C29_SubagentTypeOfTaskItem ==
  Done =>
    \A k \in SubagentEntries :
      \A item \in TaskItemsOf(finalGroups[k].group) :
        (IsTaskItem(item) /\ item.id = finalGroups[k].group.id) =>
          finalGroups[k].group.subagentType = item.subagent_type

(* C30: shouldHideMessage, handed a message of a transcript and the output *)
(* of groupMessages for that transcript, holds exactly when the message is *)
(* among the subagentMessages of a Subagent entry of the output.           *)

C30_HiddenIffMember ==
  pc = "hidden" => \A i \in Indices : i \in hidden <=> MemberAt(i) # {}

====
